---- MODULE Spec2Model ----
(***************************************************************************)
(* Object admission pipeline: ObjectTracker, ObjectBrain, the Redis        *)
(* adapter (object hashes, view sets, work queues) and the buffered        *)
(* ObjectPersistence service.                                              *)
(*                                                                         *)
(* Encodings.  Time is an integer number of seconds.  Ratios (IoU, the     *)
(* quality metrics) are kept exact: an IoU is the pair <<num, den>>, a     *)
(* metric is an integer number of hundredths.  Redis stores every hash     *)
(* field as str(v) and get_object parses it back with float()/int(); on    *)
(* the integers and status strings used here that round trip returns the   *)
(* value written, so a hash is modelled as a record of the parsed values.  *)
(* Python lists are 0-based, sequences here are 1-based; index 0 stands    *)
(* for None.                                                               *)
(***************************************************************************)
EXTENDS Integers, Sequences, FiniteSets, TLC

\* ------------------------------------------------------------------ bounds
MaxObjs   == 2      \* object ids the tracker may hand out (FrameSpec)
MaxBrainObjs == 1   \* object ids the tracker may hand out (Spec, QualitySpec)
MaxFrames == 2      \* distinct frame ids
MaxDet    == 2      \* detections in one frame
MaxNotes  == 2      \* audit entries kept per object
MaxQueue  == 2      \* entries per work queue
MaxTicks  == 2      \* clock advances
TimeStep  == 20     \* seconds per clock advance
MaxLoops  == 2      \* flush threads ever started
MaxRecords == 2     \* records handed to sync_* calls
MaxWorkers == 2
MaxCalls == 2
MaxPushes == 3
MaxDetectors == 3
MaxOrbitFrames == 4
buffer_size == 2    \* self.buffer_size, scaled down (100 in the source)

\* ------------------------------------------------------- program constants
iou_threshold_num == 1
iou_threshold_den == 2
max_age == 30
observation_window_sec == 30
observation_min_views == 10
quarantine_failed_attempts == 3
pending_min_views == 3
orbit_deg_min == 240
mvs_consistency_max == 10
silhouette_iou_min == 70
texture_cov_min == 60
scale_conf_min == 80
mvs_consistency_default == 100

default_backend == "yolov8"
Backends == {"yolov8", "detectron2"}

valid_statuses == {"pending", "observing", "ready", "quarantine"}

ObjIds  == 1..MaxObjs
\* ids the operator calls name; the last one is never handed out by the tracker
AllIds == ObjIds \cup (1..(MaxBrainObjs + 1))
FrameIds == 1..MaxFrames
Workers == 1..MaxWorkers
BrainIds == 1..(MaxBrainObjs + 1)
\* IoU(box 1, box 2) = 1/2, the threshold itself; box 3 is disjoint from both
Boxes   == { <<0, 0, 10, 10>>, <<0, 0, 10, 5>>, <<20, 20, 30, 30>> }
Reasons == {"", "bad"}
Queues == {"triage", "recon", "quarantine"}
Consumers == {1, 2}
PopTimeouts == {0, 1}
StatusArgs == valid_statuses \cup {"archived"}

VARIABLES
    now,        \* wall clock / default frame timestamp
    nextId,     \* next fresh object id (uuid4)
    tracks,     \* ObjectTracker.tracks : obj_id -> ObjectTrack
    objs,       \* Redis hashes obj:{id}
    viewsZ,     \* Redis sorted sets obj:{id}:views, as sets of <<frame_id, ts>>
    metrics,    \* Redis hashes obj:{id}:metrics
    triage,     \* Redis list queue:triage, head first
    recon,      \* Redis list queue:recon, head first
    quarantine, \* Redis list queue:quarantine, head first
    failStreak, \* per object: consecutive failed admission checks observed
    ret         \* outcome of the last call

VARIABLES
    running,      \* ObjectPersistence.running
    flush_thread, \* ObjectPersistence.flush_thread: 0 (None) or the newest loop thread
    pc,           \* position of every thread of the persistence service
    conn,         \* ObjectPersistence.conn: "none" or "open"
    dbUp,         \* whether the Postgres server accepts connections and statements
    buffers,      \* object_buffer and observation_buffer
    store,        \* the durable tables objects and object_observations
    nextRec,      \* serial number of the next record built by a sync_* call
    written,      \* serial numbers of the records of committed flushes
    plast         \* the last step of the persistence service

VARIABLES
    wk,           \* per producer thread: position and locals of its process_frame call
    qlog          \* per queue: what was pushed and what pops returned, in order

VARIABLES
    thresholds,   \* ObjectBrain.thresholds
    detector,     \* detector_factory._detector_instance and _detector_backend
    orbitTrack    \* an ObjectTrack whose frames are handed to _calculate_orbit

kvars == <<thresholds, detector, orbitTrack>>

cvars == <<wk, qlog, kvars>>

pvars == <<running, flush_thread, pc, conn, dbUp, buffers, store, nextRec, written, plast>>

bvars == <<now, nextId, tracks, objs, viewsZ, metrics,
           triage, recon, quarantine, failStreak, ret>>

\* ------------------------------------------------------------ Redis adapter
\* get_object: None (here: the id is not in the domain) when the hash is empty
HasObject(O, o) == o \in DOMAIN O

\* a field missing from a hash reads as the default its readers pass to .get()
DefaultObject ==
    [class |-> "unknown", status |-> "pending", orbit_deg |-> 0, views |-> 0,
     best_frames |-> <<>>, conf_class |-> 0, scale_conf |-> 0,
     last_seen_ts |-> 0, notes |-> <<>>]

\* hset key field value: creates the hash when it does not exist
update_object_field(O, o, field, value) ==
    IF o \in DOMAIN O
    THEN [O EXCEPT ![o] = [@ EXCEPT ![field] = value]]
    ELSE [x \in (DOMAIN O) \cup {o} |->
             IF x = o THEN [DefaultObject EXCEPT ![field] = value] ELSE O[x]]

\* set_metrics / get_metrics; an absent hash reads as the empty dict
NoMetrics == [present |-> FALSE, mvs_consistency |-> 0, silhouette_iou |-> 0, texture_cov |-> 0]

set_metrics(M, o, m) ==
    [x \in (DOMAIN M) \cup {o} |->
        IF x = o THEN [present |-> TRUE, mvs_consistency |-> m.mvs_consistency,
                       silhouette_iou |-> m.silhouette_iou, texture_cov |-> m.texture_cov]
        ELSE M[x]]

get_metrics(M, o) == IF o \in DOMAIN M THEN M[o] ELSE NoMetrics

set_object(O, o, data) == [x \in (DOMAIN O) \cup {o} |-> IF x = o THEN data ELSE O[x]]

\* zadd key {frame_id: timestamp}: one score per member
add_view(Z, o, frame_id, ts) ==
    LET old == IF o \in DOMAIN Z THEN Z[o] ELSE {}
        new == {p \in old : p[1] # frame_id} \cup {<<frame_id, ts>>}
    IN [x \in (DOMAIN Z) \cup {o} |-> IF x = o THEN new ELSE Z[x]]

\* lpush: new entries go to the head of the list
lpush(q, x) == <<x>> \o q

push_to_triage(q, o) == lpush(q, o)
push_to_recon(q, o) == lpush(q, o)

\* json.dumps of the dict {"obj_id": ..., "reason": ...}: the text, token by token
json_dumps(d) ==
    <<"{", "obj_id", ":", d.obj_id, ",", "reason", ":", d.reason, "}">>

\* json.loads: the dict of a text of that form, otherwise it raises
json_loads(text) ==
    IF Len(text) = 9 /\ text[1] = "{" /\ text[9] = "}"
    THEN [ok |-> TRUE, value |-> [obj_id |-> text[4], reason |-> text[8]]]
    ELSE [ok |-> FALSE, value |-> <<>>]

push_to_quarantine(q, o, reason) ==
    lpush(q, json_dumps([obj_id |-> o, reason |-> reason]))

\* variant of rpop that takes the entry at the head of the list
rpop_head(q) ==
    IF q = <<>> THEN [found |-> FALSE, val |-> <<>>, q |-> q]
    ELSE [found |-> TRUE, val |-> Head(q), q |-> Tail(q)]

\* rpop: the entry at the tail of the list, None when the list is empty
rpop(q) ==
    IF q = <<>> THEN [found |-> FALSE, val |-> <<>>, q |-> q]
    ELSE [found |-> TRUE, val |-> q[Len(q)], q |-> SubSeq(q, 1, Len(q) - 1)]

\* brpop: the pair (key, entry), None when the timeout passes on an empty list
brpop(key, q) ==
    LET r == rpop(q)
    IN IF r.found THEN [found |-> TRUE, val |-> <<key, r.val>>, q |-> r.q] ELSE r

\* pop_from_triage / pop_from_recon: result[1] of brpop, or rpop's result
pop_from_list(key, q, timeout) ==
    IF timeout > 0
    THEN LET result == brpop(key, q)
         IN IF result.found THEN [result EXCEPT !.val = result.val[2]] ELSE result
    ELSE rpop(q)

\* pop_from_quarantine: the popped text is parsed; a text that does not parse
\* is returned as the obj_id with an empty reason
pop_from_quarantine(q, timeout) ==
    LET r == pop_from_list("queue:quarantine", q, timeout)
        parsed == json_loads(r.val)
    IN IF ~r.found THEN r
       ELSE IF parsed.ok THEN [r EXCEPT !.val = parsed.value]
       ELSE [r EXCEPT !.val = [obj_id |-> r.val, reason |-> ""]]

\* ------------------------------------------------------------ ObjectTracker
Max2(a, b) == IF a >= b THEN a ELSE b
Min2(a, b) == IF a <= b THEN a ELSE b

\* _calculate_iou as the exact fraction <<intersection, union>>; <<0, 1>> is 0.0
calculate_iou(b1, b2) ==
    LET x1 == Max2(b1[1], b2[1])
        y1 == Max2(b1[2], b2[2])
        x2 == Min2(b1[3], b2[3])
        y2 == Min2(b1[4], b2[4])
        inter == (x2 - x1) * (y2 - y1)
        area1 == (b1[3] - b1[1]) * (b1[4] - b1[2])
        area2 == (b2[3] - b2[1]) * (b2[4] - b2[2])
        union == area1 + area2 - inter
    IN IF x2 < x1 \/ y2 < y1 THEN <<0, 1>>
       ELSE IF union = 0 THEN <<0, 1>>
       ELSE <<inter, union>>

IouGreater(a, b) == a[1] * b[2] > b[1] * a[2]
IouAtLeastThreshold(a) == a[1] * iou_threshold_den >= iou_threshold_num * a[2]

\* inner loop of _match_detections: best unused detection for one track
RECURSIVE BestDetection(_, _, _, _, _, _)
BestDetection(last_bbox, dets, i, used, best_iou, best_idx) ==
    IF i > Len(dets) THEN best_idx
    ELSE IF i \in used THEN BestDetection(last_bbox, dets, i + 1, used, best_iou, best_idx)
    ELSE LET iou == calculate_iou(last_bbox, dets[i].bbox)
         IN IF IouGreater(iou, best_iou) /\ IouAtLeastThreshold(iou)
            THEN BestDetection(last_bbox, dets, i + 1, used, iou, i)
            ELSE BestDetection(last_bbox, dets, i + 1, used, best_iou, best_idx)

\* dict iteration order of self.tracks is insertion order; ids are handed out
\* in increasing order and never re-inserted, so it is increasing id order
RECURSIVE TrackOrder(_)
TrackOrder(S) ==
    IF S = {} THEN <<>>
    ELSE LET m == CHOOSE x \in S : \A y \in S : x <= y
         IN <<m>> \o TrackOrder(S \ {m})

\* outer loop of _match_detections: obj_id -> detection index
RECURSIVE MatchLoop(_, _, _, _, _)
MatchLoop(T, order, dets, matched, used) ==
    IF order = <<>> THEN matched
    ELSE LET o == Head(order)
             track == T[o]
         IN IF track.frames = <<>>
            THEN MatchLoop(T, Tail(order), dets, matched, used)
            ELSE LET last_bbox == track.frames[Len(track.frames)].bbox
                     idx == BestDetection(last_bbox, dets, 1, used, <<0, 1>>, 0)
                 IN IF idx # 0
                    THEN MatchLoop(T, Tail(order), dets,
                                   [x \in (DOMAIN matched) \cup {o} |->
                                        IF x = o THEN idx ELSE matched[x]],
                                   used \cup {idx})
                    ELSE MatchLoop(T, Tail(order), dets, matched, used)

match_detections(T, dets) ==
    IF DOMAIN T = {} THEN <<>>
    ELSE MatchLoop(T, TrackOrder(DOMAIN T), dets, <<>>, {})

\* update() hands _update_track the VALUE of the matched dict, which is the
\* detection index (an int), not the detection; _update_track then reads
\* detection.bbox, and an int has no attribute bbox: AttributeError.
update_track_raises(matched) == DOMAIN matched # {}

\* math.atan2(dy, dx) * 180 / math.pi in whole degrees, in (-180, 180]:
\* atan(t) on 0 <= t <= 1 is taken as 45 t + 16 t (1 - t), exact at 0 and 1
atan_deg(y, x) == (45 * y * x + 16 * y * (x - y)) \div (x * x)
Abs(n) == IF n < 0 THEN 0 - n ELSE n
atan2_deg(dy, dx) ==
    LET ax == Abs(dx)
        ay == Abs(dy)
        base == IF ax = 0 /\ ay = 0 THEN 0
                ELSE IF ax >= ay THEN atan_deg(ay, ax)
                ELSE 90 - atan_deg(ax, ay)
    IN IF dx >= 0 /\ dy >= 0 THEN base
       ELSE IF dx < 0 /\ dy >= 0 THEN 180 - base
       ELSE IF dx < 0 THEN base - 180
       ELSE 0 - base

RECURSIVE SumSeq(_)
SumSeq(s) == IF s = <<>> THEN 0 ELSE Head(s) + SumSeq(Tail(s))

MaxOf(a, b) == IF a >= b THEN a ELSE b
MinOf(a, b) == IF a <= b THEN a ELSE b

\* the angles of the box centres about their centroid, sorted; a centre is
\* kept doubled and the offsets are scaled by the number of centres, which
\* leaves every angle as it is
orbit_angles(track) ==
    LET n == Len(track.frames)
        cx == [i \in 1..n |-> track.frames[i].bbox[1] + track.frames[i].bbox[3]]
        cy == [i \in 1..n |-> track.frames[i].bbox[2] + track.frames[i].bbox[4]]
        angles == [i \in 1..n |->
                      atan2_deg(n * cy[i] - SumSeq(cy), n * cx[i] - SumSeq(cx))]
    IN SortSeq(angles, LAMBDA a, b : a < b)

RECURSIVE max_gap_from(_, _, _)
max_gap_from(gaps, i, max_gap) ==
    IF i > Len(gaps) THEN max_gap
    ELSE max_gap_from(gaps, i + 1, MaxOf(max_gap, gaps[i]))

calculate_orbit_fullturn(track) ==
    IF Len(track.frames) < 2 THEN 0
    ELSE LET a == orbit_angles(track)
             n == Len(a)
             gaps == [i \in 1..n |-> a[(i % n) + 1] - a[i] + 360]
         IN MinOf(360 - max_gap_from(gaps, 1, 0), 360)

calculate_orbit(track) ==
    IF Len(track.frames) < 2 THEN 0
    ELSE LET a == orbit_angles(track)
             n == Len(a)
             gaps == [i \in 1..n |-> (a[(i % n) + 1] - a[i]) % 360]
         IN MinOf(360 - max_gap_from(gaps, 1, 0), 360)

FrameObs(frame_id, det, ts) ==
    [frame_id |-> frame_id, bbox |-> det.bbox, confidence |-> det.confidence,
     timestamp |-> ts]

NewObject(cls, conf, ts) ==
    [class |-> cls, status |-> "pending", orbit_deg |-> 0, views |-> 1,
     best_frames |-> <<>>, conf_class |-> conf, scale_conf |-> 0,
     last_seen_ts |-> ts, notes |-> <<>>]

\* _create_new_track on the state S = [tracks, objs, viewsZ, triage, nextId, ids]
create_new_track(S, frame_id, det, ts) ==
    LET o == S.nextId
        track == [class_name |-> det.class_name,
                  frames |-> <<FrameObs(frame_id, det, ts)>>,
                  orbit_deg |-> 0, best_frames |-> <<>>, last_seen_ts |-> ts]
    IN [S EXCEPT !.nextId = o + 1,
                 !.objs = set_object(S.objs, o, NewObject(det.class_name, det.confidence, ts)),
                 !.viewsZ = add_view(S.viewsZ, o, frame_id, ts),
                 !.tracks = [x \in (DOMAIN S.tracks) \cup {o} |->
                                IF x = o THEN track ELSE S.tracks[x]],
                 !.ids = Append(S.ids, o)]

RECURSIVE CreateLoop(_, _, _, _, _, _)
CreateLoop(S, frame_id, dets, i, matched_idx, ts) ==
    IF i > Len(dets) THEN S
    ELSE IF i \in matched_idx THEN CreateLoop(S, frame_id, dets, i + 1, matched_idx, ts)
    ELSE CreateLoop(create_new_track(S, frame_id, dets[i], ts),
                    frame_id, dets, i + 1, matched_idx, ts)

remove_stale_tracks(T, current_timestamp) ==
    LET stale == {o \in DOMAIN T : current_timestamp - T[o].last_seen_ts > max_age}
    IN [o \in (DOMAIN T) \ stale |-> T[o]]

\* ------------------------------------------------------------- ObjectBrain
\* _update_object_state
update_object_state(O, o, ts) ==
    IF ~HasObject(O, o)
    THEN set_object(O, o, NewObject("unknown", 0, ts))
    ELSE update_object_field(
             update_object_field(O, o, "views", O[o].views + 1),
             o, "last_seen_ts", ts)

\* body of the for loop of process_frame for one returned id
BrainStep(S, o, ts) ==
    LET O1 == update_object_state(S.objs, o, ts)
    IN IF ~HasObject(O1, o) THEN [S EXCEPT !.objs = O1]
       ELSE LET status == O1[o].status
                views == O1[o].views
                last_seen == O1[o].last_seen_ts
                age == ts - last_seen
            IN IF status = "pending" /\ views >= pending_min_views
               THEN [S EXCEPT !.objs = update_object_field(O1, o, "status", "observing"),
                              !.triage = push_to_triage(S.triage, o)]
               ELSE IF status = "observing"
                       /\ (views >= observation_min_views \/ age >= observation_window_sec)
               THEN [S EXCEPT !.objs = O1, !.triage = push_to_triage(S.triage, o)]
               ELSE [S EXCEPT !.objs = O1]

RECURSIVE BrainLoop(_, _, _, _)
BrainLoop(S, ids, i, ts) ==
    IF i > Len(ids) THEN S
    ELSE BrainLoop(BrainStep(S, ids[i], ts), ids, i + 1, ts)

\* what the detector may return for a frame: up to n detections with boxes in B
DetectionsOf(B, n) ==
    UNION { [1..k -> [bbox : B, confidence : {90}, class_name : {"thing"}]] : k \in 0..n }

Detections == DetectionsOf(Boxes, MaxDet)
\* the scene of Spec and QualitySpec: one object, seen in one place
SceneFrames == {1}
SceneDetections == DetectionsOf({<<0, 0, 10, 10>>}, MaxBrainObjs)
\* frames that show exactly one detection, always at the same place
SingleDetection == {<<d>> : d \in [bbox : {<<0, 0, 10, 10>>}, confidence : {90},
                                   class_name : {"thing"}]}

Ret(op, obj, val, raised, ids) ==
    [op |-> op, obj |-> obj, val |-> val, raised |-> raised, ids |-> ids]

\* variant of update whose eviction also calls delete_object for the stale ids
update_deleting(S, frame_id, dets, ts) ==
    LET matched == match_detections(S.tracks, dets)
        matched_idx == {matched[o] : o \in DOMAIN matched}
    IN IF update_track_raises(matched)
       THEN [raised |-> TRUE, S |-> S]
       ELSE LET S1 == CreateLoop(S, frame_id, dets, 1, matched_idx, ts)
                T2 == remove_stale_tracks(S1.tracks, ts)
                gone == (DOMAIN S1.tracks) \ (DOMAIN T2)
            IN [raised |-> FALSE,
                S |-> [S1 EXCEPT !.tracks = T2,
                                 !.objs = [x \in (DOMAIN S1.objs) \ gone |-> S1.objs[x]],
                                 !.viewsZ = [x \in (DOMAIN S1.viewsZ) \ gone |-> S1.viewsZ[x]]]]

\* ObjectTracker.update on S = [tracks, objs, viewsZ, triage, nextId, ids];
\* when it raises nothing has been written yet
update(S, frame_id, dets, ts) ==
    LET matched == match_detections(S.tracks, dets)
        matched_idx == {matched[o] : o \in DOMAIN matched}
    IN IF update_track_raises(matched)
       THEN [raised |-> TRUE, S |-> S]
       ELSE LET S1 == CreateLoop(S, frame_id, dets, 1, matched_idx, ts)
            IN [raised |-> FALSE,
                S |-> [S1 EXCEPT !.tracks = remove_stale_tracks(S1.tracks, ts)]]

\* variant of process_frame that puts a re-observed object back onto triage
\* whatever its status
process_frame_requeue(S, frame_id, dets, ts) ==
    LET u == update(S, frame_id, dets, ts)
        seen == TrackOrder(DOMAIN match_detections(S.tracks, dets))
    IN IF u.raised THEN [u EXCEPT !.S.triage = seen \o @]
       ELSE [raised |-> FALSE, S |-> BrainLoop(u.S, u.S.ids, 1, ts)]

\* ObjectBrain.process_frame: tracker update, then the loop over its ids
process_frame(S, frame_id, dets, ts) ==
    LET u == update(S, frame_id, dets, ts)
    IN IF u.raised THEN u
       ELSE [raised |-> FALSE, S |-> BrainLoop(u.S, u.S.ids, 1, ts)]

EmptyScene ==
    [tracks |-> <<>>, objs |-> <<>>, viewsZ |-> <<>>, triage |-> <<>>,
     nextId |-> 1, ids |-> <<>>]

\* ---------------------------------------------------------- detector factory
NoDetector == [instance |-> 0, backend |-> "", created |-> 0]

\* get_detector(backend): the instance is replaced by a new one when there is
\* none or when it was made for another backend; instance 0 and backend ""
\* stand for None, created counts the instances made so far
get_detector(D, backend) ==
    IF D.instance = 0 \/ D.backend # backend
    THEN [instance |-> D.created + 1, backend |-> backend, created |-> D.created + 1]
    ELSE D

reset_detector(D) == [D EXCEPT !.instance = 0, !.backend = ""]

\* process_frame(frame_id, image, timestamp=None): the detector's output for
\* the image is the input dets; the timestamp defaults to now
ProcessFrame(frame_id, dets, cap) ==
    \E r \in {process_frame([tracks |-> tracks, objs |-> objs, viewsZ |-> viewsZ,
                               triage |-> triage, nextId |-> nextId, ids |-> <<>>],
                              frame_id, dets, now)} :
       /\ r.S.nextId - 1 <= cap
       /\ Len(r.S.triage) <= MaxQueue
       /\ nextId' = r.S.nextId
       /\ tracks' = r.S.tracks
       /\ objs' = r.S.objs
       /\ viewsZ' = r.S.viewsZ
       /\ triage' = r.S.triage
       /\ ret' = Ret("process_frame", 0, ~r.raised, r.raised, r.S.ids)
       /\ detector' = get_detector(detector, default_backend)
       /\ detector'.created <= MaxDetectors
       /\ UNCHANGED <<now, metrics, recon, quarantine, failStreak, pvars,
                      wk, qlog, thresholds, orbitTrack>>

\* self.thresholds as __init__ sets it
DefaultThresholds ==
    [orbit_deg_min |-> orbit_deg_min, mvs_consistency_max |-> mvs_consistency_max,
     silhouette_iou_min |-> silhouette_iou_min, texture_cov_min |-> texture_cov_min,
     scale_conf_min |-> scale_conf_min]

\* variant of QualityChecks whose orbit bound is exclusive
QualityChecks_strict(O, M, o) ==
    LET m == get_metrics(M, o)
        mvs == IF m.present THEN m.mvs_consistency ELSE mvs_consistency_default
        sil == IF m.present THEN m.silhouette_iou ELSE 0
        tex == IF m.present THEN m.texture_cov ELSE 0
    IN [orbit_deg |-> O[o].orbit_deg > thresholds.orbit_deg_min,
        mvs_consistency |-> mvs <= thresholds.mvs_consistency_max,
        silhouette_iou |-> sil >= thresholds.silhouette_iou_min,
        texture_cov |-> tex >= thresholds.texture_cov_min,
        scale_conf |-> O[o].scale_conf >= thresholds.scale_conf_min]

\* check_quality_thresholds: the five checks on the stored values
QualityChecks(O, M, o) ==
    LET m == get_metrics(M, o)
        mvs == IF m.present THEN m.mvs_consistency ELSE mvs_consistency_default
        sil == IF m.present THEN m.silhouette_iou ELSE 0
        tex == IF m.present THEN m.texture_cov ELSE 0
    IN [orbit_deg |-> O[o].orbit_deg >= thresholds.orbit_deg_min,
        mvs_consistency |-> mvs <= thresholds.mvs_consistency_max,
        silhouette_iou |-> sil >= thresholds.silhouette_iou_min,
        texture_cov |-> tex >= thresholds.texture_cov_min,
        scale_conf |-> O[o].scale_conf >= thresholds.scale_conf_min]

MeetsThresholds(O, M, o) ==
    LET c == QualityChecks(O, M, o)
    IN c.orbit_deg /\ c.mvs_consistency /\ c.silhouette_iou /\ c.texture_cov /\ c.scale_conf

\* check_quality_thresholds(obj_id): reads only; failStreak records what a
\* caller observes, the code keeps no such counter
CheckQuality(o) ==
    /\ IF ~HasObject(objs, o)
       THEN /\ ret' = Ret("check_quality_thresholds", o,
                          [meets_thresholds |-> FALSE, reason |-> "Object not found"],
                          FALSE, <<>>)
            /\ UNCHANGED failStreak
       ELSE LET meets == MeetsThresholds(objs, metrics, o)
            IN /\ ret' = Ret("check_quality_thresholds", o,
                             [meets_thresholds |-> meets,
                              checks |-> QualityChecks(objs, metrics, o)],
                             FALSE, <<>>)
               /\ failStreak' = [failStreak EXCEPT ![o] =
                                    IF meets THEN 0
                                    ELSE Min2(@ + 1, quarantine_failed_attempts)]
    /\ UNCHANGED <<now, nextId, tracks, objs, viewsZ, metrics,
                   triage, recon, quarantine, pvars, cvars>>

AuditEntry(old_status, new_status, reason, ts) ==
    [from |-> old_status, to |-> new_status, reason |-> reason, timestamp |-> ts]

\* variant of transition_status without the test of the status value
transition_status_anyvalue(O, Q, o, new_status, reason, ts) ==
    IF ~HasObject(O, o) THEN [ok |-> FALSE, objs |-> O, quarantine |-> Q]
    ELSE LET old_status == O[o].status
             O1 == update_object_field(O, o, "status", new_status)
             O2 == IF reason # ""
                   THEN update_object_field(O1, o, "notes",
                            Append(O[o].notes, AuditEntry(old_status, new_status, reason, ts)))
                   ELSE O1
             Q1 == IF new_status = "quarantine"
                   THEN push_to_quarantine(Q, o, IF reason # "" THEN reason
                                                 ELSE "Quality check failed")
                   ELSE Q
         IN [ok |-> TRUE, objs |-> O2, quarantine |-> Q1]

\* variant of transition_status without the lookup of the object
transition_status_nolookup(O, Q, o, new_status, reason, ts) ==
    IF new_status \notin valid_statuses THEN [ok |-> FALSE, objs |-> O, quarantine |-> Q]
    ELSE LET old_status == IF HasObject(O, o) THEN O[o].status ELSE "pending"
             old_notes == IF HasObject(O, o) THEN O[o].notes ELSE <<>>
             O1 == update_object_field(O, o, "status", new_status)
             O2 == IF reason # ""
                   THEN update_object_field(O1, o, "notes",
                            Append(old_notes, AuditEntry(old_status, new_status, reason, ts)))
                   ELSE O1
             Q1 == IF new_status = "quarantine"
                   THEN push_to_quarantine(Q, o, IF reason # "" THEN reason
                                                 ELSE "Quality check failed")
                   ELSE Q
         IN [ok |-> TRUE, objs |-> O2, quarantine |-> Q1]

\* variant of transition_status that stores the new entry as the whole log
transition_status_overwrite(O, Q, o, new_status, reason, ts) ==
    IF new_status \notin valid_statuses THEN [ok |-> FALSE, objs |-> O, quarantine |-> Q]
    ELSE IF ~HasObject(O, o) THEN [ok |-> FALSE, objs |-> O, quarantine |-> Q]
    ELSE LET old_status == O[o].status
             O1 == update_object_field(O, o, "status", new_status)
             O2 == IF reason # ""
                   THEN update_object_field(O1, o, "notes",
                            <<AuditEntry(old_status, new_status, reason, ts)>>)
                   ELSE O1
             Q1 == IF new_status = "quarantine"
                   THEN push_to_quarantine(Q, o, IF reason # "" THEN reason
                                                 ELSE "Quality check failed")
                   ELSE Q
         IN [ok |-> TRUE, objs |-> O2, quarantine |-> Q1]

\* transition_status on the pair <<objs, quarantine queue>>; reason "" stands
\* for both None and the empty string (both are falsy)
transition_status(O, Q, o, new_status, reason, ts) ==
    IF new_status \notin valid_statuses THEN [ok |-> FALSE, objs |-> O, quarantine |-> Q]
    ELSE IF ~HasObject(O, o) THEN [ok |-> FALSE, objs |-> O, quarantine |-> Q]
    ELSE LET old_status == O[o].status
             O1 == update_object_field(O, o, "status", new_status)
             O2 == IF reason # ""
                   THEN update_object_field(O1, o, "notes",
                            Append(O[o].notes, AuditEntry(old_status, new_status, reason, ts)))
                   ELSE O1
             Q1 == IF new_status = "quarantine"
                   THEN push_to_quarantine(Q, o, IF reason # "" THEN reason
                                                 ELSE "Quality check failed")
                   ELSE Q
         IN [ok |-> TRUE, objs |-> O2, quarantine |-> Q1]

WithinCaps(O, Q) ==
    /\ \A o \in DOMAIN O : Len(O[o].notes) <= MaxNotes
    /\ Len(Q) <= MaxQueue

TransitionStatus(o, new_status, reason) ==
    LET r == transition_status(objs, quarantine, o, new_status, reason, now)
    IN /\ WithinCaps(r.objs, r.quarantine)
       /\ objs' = r.objs
       /\ quarantine' = r.quarantine
       /\ ret' = Ret("transition_status", o, r.ok, FALSE, <<>>)
       /\ UNCHANGED <<now, nextId, tracks, viewsZ, metrics,
                      triage, recon, failStreak, pvars, cvars>>

ForceAdmit(o, reason) ==
    IF ~HasObject(objs, o)
    THEN /\ ret' = Ret("force_admit", o, FALSE, FALSE, <<>>)
         /\ UNCHANGED <<now, nextId, tracks, objs, viewsZ, metrics,
                        triage, recon, quarantine, failStreak, pvars, cvars>>
    ELSE LET r == transition_status(objs, quarantine, o, "observing", reason, now)
         IN /\ WithinCaps(r.objs, r.quarantine)
            /\ Len(recon) < MaxQueue
            /\ objs' = r.objs
            /\ quarantine' = r.quarantine
            /\ recon' = push_to_recon(recon, o)
            /\ ret' = Ret("force_admit", o, TRUE, FALSE, <<>>)
            /\ UNCHANGED <<now, nextId, tracks, viewsZ, metrics,
                           triage, failStreak, pvars, cvars>>

ForceQuarantine(o, reason) ==
    LET r == transition_status(objs, quarantine, o, "quarantine", reason, now)
    IN /\ WithinCaps(r.objs, r.quarantine)
       /\ objs' = r.objs
       /\ quarantine' = r.quarantine
       /\ ret' = Ret("force_quarantine", o, r.ok, FALSE, <<>>)
       /\ UNCHANGED <<now, nextId, tracks, viewsZ, metrics,
                      triage, recon, failStreak, pvars, cvars>>

\* get_object_status(obj_id): None (here: found = FALSE) or the status record
GetObjectStatus(o) ==
    /\ ret' = Ret("get_object_status", o,
                  IF ~HasObject(objs, o) THEN [found |-> FALSE]
                  ELSE [found |-> TRUE, obj_id |-> o, status |-> objs[o].status,
                        class |-> objs[o].class, orbit_deg |-> objs[o].orbit_deg,
                        views |-> IF o \in DOMAIN viewsZ THEN Cardinality(viewsZ[o]) ELSE 0,
                        metrics |-> get_metrics(metrics, o),
                        last_seen_ts |-> objs[o].last_seen_ts,
                        best_frames |-> objs[o].best_frames],
                  FALSE, <<>>)
    /\ UNCHANGED <<now, nextId, tracks, objs, viewsZ, metrics,
                   triage, recon, quarantine, failStreak, pvars, cvars>>

\* ------------------------------------------------- queue producers/consumers
Logged(q, field, x) == [qlog EXCEPT ![q][field] = Append(@, x)]

PushesLeft ==
    Len(qlog["triage"].pushed) + Len(qlog["recon"].pushed)
        + Len(qlog["quarantine"].pushed) < MaxPushes

\* RedisClient.push_to_triage(obj_id)
PushTriage(o) ==
    /\ PushesLeft
    /\ triage' = push_to_triage(triage, o)
    /\ qlog' = Logged("triage", "pushed", o)
    /\ ret' = Ret("push_to_triage", o, TRUE, FALSE, <<>>)
    /\ UNCHANGED <<now, nextId, tracks, objs, viewsZ, metrics, recon, quarantine,
                   failStreak, pvars, wk, kvars>>

\* RedisClient.push_to_recon(obj_id)
PushRecon(o) ==
    /\ PushesLeft
    /\ recon' = push_to_recon(recon, o)
    /\ qlog' = Logged("recon", "pushed", o)
    /\ ret' = Ret("push_to_recon", o, TRUE, FALSE, <<>>)
    /\ UNCHANGED <<now, nextId, tracks, objs, viewsZ, metrics, triage, quarantine,
                   failStreak, pvars, wk, kvars>>

\* RedisClient.push_to_quarantine(obj_id, reason)
PushQuarantine(o, reason) ==
    /\ PushesLeft
    /\ quarantine' = push_to_quarantine(quarantine, o, reason)
    /\ qlog' = Logged("quarantine", "pushed", [obj_id |-> o, reason |-> reason])
    /\ ret' = Ret("push_to_quarantine", o, TRUE, FALSE, <<>>)
    /\ UNCHANGED <<now, nextId, tracks, objs, viewsZ, metrics, triage, recon,
                   failStreak, pvars, wk, kvars>>

\* what a pop hands its caller: None, or the entry
Popped(r) == IF r.found THEN [found |-> TRUE, entry |-> r.val] ELSE [found |-> FALSE]

\* RedisClient.pop_from_triage(timeout), called by consumer c
PopTriage(c, timeout) ==
    \E r \in {pop_from_list("queue:triage", triage, timeout)} :
       /\ triage' = r.q
       /\ qlog' = IF r.found THEN Logged("triage", "popped", r.val) ELSE qlog
       /\ ret' = Ret("pop_from_triage", c, Popped(r), FALSE, <<>>)
       /\ UNCHANGED <<now, nextId, tracks, objs, viewsZ, metrics, recon, quarantine,
                      failStreak, pvars, wk, kvars>>

\* RedisClient.pop_from_recon(timeout), called by consumer c
PopRecon(c, timeout) ==
    \E r \in {pop_from_list("queue:recon", recon, timeout)} :
       /\ recon' = r.q
       /\ qlog' = IF r.found THEN Logged("recon", "popped", r.val) ELSE qlog
       /\ ret' = Ret("pop_from_recon", c, Popped(r), FALSE, <<>>)
       /\ UNCHANGED <<now, nextId, tracks, objs, viewsZ, metrics, triage, quarantine,
                      failStreak, pvars, wk, kvars>>

\* RedisClient.pop_from_quarantine(timeout), called by consumer c
PopQuarantine(c, timeout) ==
    \E r \in {pop_from_quarantine(quarantine, timeout)} :
       /\ quarantine' = r.q
       /\ qlog' = IF r.found THEN Logged("quarantine", "popped", r.val) ELSE qlog
       /\ ret' = Ret("pop_from_quarantine", c, Popped(r), FALSE, <<>>)
       /\ UNCHANGED <<now, nextId, tracks, objs, viewsZ, metrics, triage, recon,
                      failStreak, pvars, wk, kvars>>

\* ------------------------------------------------------------ configuration
\* self.thresholds.update(thresholds): every key of the argument is stored
update_thresholds(T, t) ==
    [k \in (DOMAIN T) \cup (DOMAIN t) |-> IF k \in DOMAIN t THEN t[k] ELSE T[k]]

\* what a caller may submit: one threshold with a value below, inside or above
\* its range, or a name that is no threshold
ThresholdUpdates ==
    [orbit_deg_min : {0 - 10, 200, 400}]
        \cup [silhouette_iou_min : {0 - 5, 50, 150}]
        \cup [bogus_min : {1}]

\* update_thresholds(thresholds)
UpdateThresholds(t) ==
    /\ thresholds' = update_thresholds(thresholds, t)
    /\ ret' = Ret("update_thresholds", 0, TRUE, FALSE, <<>>)
    /\ UNCHANGED <<now, nextId, tracks, objs, viewsZ, metrics, triage, recon,
                   quarantine, failStreak, pvars, wk, qlog, detector, orbitTrack>>

\* POST /objects/config/detector: reset_detector(), then get_detector(backend)
UpdateDetector(backend) ==
    /\ detector' = get_detector(reset_detector(detector), backend)
    /\ detector'.created <= MaxDetectors
    /\ ret' = Ret("update_detector", 0, TRUE, FALSE, <<>>)
    /\ UNCHANGED <<now, nextId, tracks, objs, viewsZ, metrics, triage, recon,
                   quarantine, failStreak, pvars, wk, qlog, thresholds, orbitTrack>>

\* a downstream worker publishing an evaluation through the adapter:
\* set_metrics plus update_object_field for orbit_deg and scale_conf
QualityGood ==
    [orbit_deg |-> 250, mvs_consistency |-> 5, silhouette_iou |-> 80,
     texture_cov |-> 70, scale_conf |-> 90]
QualityLowSilhouette == [QualityGood EXCEPT !.silhouette_iou = 50]
\* every value exactly on its threshold, and each value one step across it
QualityAtBounds ==
    [orbit_deg |-> orbit_deg_min, mvs_consistency |-> mvs_consistency_max,
     silhouette_iou |-> silhouette_iou_min, texture_cov |-> texture_cov_min,
     scale_conf |-> scale_conf_min]
QualityAcross ==
    {[QualityAtBounds EXCEPT !.orbit_deg = @ - 1],
     [QualityAtBounds EXCEPT !.mvs_consistency = @ + 1],
     [QualityAtBounds EXCEPT !.silhouette_iou = @ - 1],
     [QualityAtBounds EXCEPT !.texture_cov = @ - 1],
     [QualityAtBounds EXCEPT !.scale_conf = @ - 1]}
Qualities == {QualityGood, QualityLowSilhouette, QualityAtBounds} \cup QualityAcross

SetQuality(o, q) ==
    /\ HasObject(objs, o)
    /\ metrics' = set_metrics(metrics, o, q)
    /\ objs' = update_object_field(
                   update_object_field(objs, o, "orbit_deg", q.orbit_deg),
                   o, "scale_conf", q.scale_conf)
    /\ ret' = Ret("set_metrics", o, TRUE, FALSE, <<>>)
    /\ UNCHANGED <<now, nextId, tracks, viewsZ,
                   triage, recon, quarantine, failStreak, pvars, cvars>>

Tick ==
    /\ now < MaxTicks * TimeStep
    /\ now' = now + TimeStep
    /\ UNCHANGED <<nextId, tracks, objs, viewsZ, metrics,
                   triage, recon, quarantine, failStreak, ret, pvars, cvars>>

\* ------------------------------------------------------- ObjectPersistence
\* Threads: the flush loops, one caller of sync_*, one caller of
\* reset_persistence.  The metric, asset and emotion buffers repeat the
\* observation buffer's code line for line; with no sync_metrics, sync_asset
\* or sync_emotion call among the inputs they stay empty and their flushes
\* return at the first line.
Loops    == 1..MaxLoops
Caller   == MaxLoops + 1
Shutdown == MaxLoops + 2
Threads  == 1..(MaxLoops + 2)
Kinds    == {"object", "observation"}

\* positions: "fo"/"fv" = at the top of flush_objects / flush_observations,
\* "co"/"cv" = after its commit, before its buffer.clear()
KindOf(p) == IF p \in {"fo", "co"} THEN "object" ELSE "observation"

Record(seq, o, status) == [seq |-> seq, obj_id |-> o, status |-> status]

HasDuplicateKeys(buf) ==
    \E i, j \in 1..Len(buf) : i < j /\ buf[i].obj_id = buf[j].obj_id

RECURSIVE Upsert(_, _, _)
Upsert(table, buf, i) ==
    IF i > Len(buf) THEN table
    ELSE Upsert([x \in (DOMAIN table) \cup {buf[i].obj_id} |->
                    IF x = buf[i].obj_id THEN buf[i] ELSE table[x]], buf, i + 1)

SeqsOf(buf) == {buf[i].seq : i \in 1..Len(buf)}

\* execute_values + commit of one buffer.  objects: INSERT ... ON CONFLICT (id)
\* DO UPDATE, one statement for up to 100 rows; PostgreSQL rejects such a
\* statement when two of its rows carry the same id ("ON CONFLICT DO UPDATE
\* command cannot affect row a second time").  observations: plain INSERT.
StatementAccepted(k, buf) == k = "object" => ~HasDuplicateKeys(buf)

WriteBatch(st, k, buf) ==
    IF k = "object"
    THEN [st EXCEPT !.object = Upsert(st.object, buf, 1)]
    ELSE [st EXCEPT !.observation = st.observation \o buf]

\* variant of FlushAttempt whose except branch leaves the batch in the store
FlushAttempt_norollback(k) ==
    LET buf == buffers[k]
    IN IF buf = <<>>
       THEN [outcome |-> "empty", conn |-> conn, store |-> store]
       ELSE IF conn = "none" /\ ~dbUp
       THEN [outcome |-> "connect_failed", conn |-> conn, store |-> store]
       ELSE IF dbUp /\ StatementAccepted(k, buf)
       THEN [outcome |-> "committed", conn |-> "open", store |-> WriteBatch(store, k, buf)]
       ELSE [outcome |-> "failed", conn |-> "open", store |-> WriteBatch(store, k, buf)]

\* flush_objects / flush_observations from its first line to the commit or
\* the except branch (rollback)
FlushAttempt(k) ==
    LET buf == buffers[k]
    IN IF buf = <<>>
       THEN [outcome |-> "empty", conn |-> conn, store |-> store]
       ELSE IF conn = "none" /\ ~dbUp
       THEN [outcome |-> "connect_failed", conn |-> conn, store |-> store]
       ELSE IF dbUp /\ StatementAccepted(k, buf)
       THEN [outcome |-> "committed", conn |-> "open", store |-> WriteBatch(store, k, buf)]
       ELSE [outcome |-> "failed", conn |-> "open", store |-> store]

\* where a thread goes when flush_<kind> returns
AfterKind(th, p) ==
    IF th = Caller THEN "idle"
    ELSE IF KindOf(p) = "object" THEN "fv"
    ELSE IF th = Shutdown THEN "close"
    ELSE "check"

\* where a thread goes when connect() raises out of flush_all
AfterRaise(th) ==
    IF th = Caller THEN "idle"
    ELSE IF th = Shutdown THEN "done"
    ELSE "check"

Event(th, ev, k) == [thread |-> th, ev |-> ev, kind |-> k]

\* the except branch calls conn.rollback(); with the server gone that call may
\* raise in its turn, and the exception leaves flush_all
FlushStep(th) ==
    /\ pc[th] \in {"fo", "fv"}
    /\ LET k == KindOf(pc[th])
           r == FlushAttempt(k)
       IN /\ conn' = r.conn
          /\ store' = r.store
          /\ written' = IF r.outcome = "committed"
                        THEN written \cup SeqsOf(buffers[k]) ELSE written
          /\ \E rollback_raises \in (IF r.outcome = "failed" /\ ~dbUp
                                     THEN BOOLEAN ELSE {FALSE}) :
                pc' = [pc EXCEPT ![th] =
                          IF r.outcome = "committed"
                          THEN (IF k = "object" THEN "co" ELSE "cv")
                          ELSE IF r.outcome = "connect_failed" \/ rollback_raises
                          THEN AfterRaise(th)
                          ELSE AfterKind(th, pc[th])]
          /\ plast' = Event(th, r.outcome, k)
    /\ UNCHANGED <<running, flush_thread, dbUp, buffers, nextRec, bvars, cvars>>

\* self.<kind>_buffer.clear()
ClearStep(th) ==
    /\ pc[th] \in {"co", "cv"}
    /\ LET k == KindOf(pc[th])
       IN /\ buffers' = [buffers EXCEPT ![k] = <<>>]
          /\ pc' = [pc EXCEPT ![th] = AfterKind(th, pc[th])]
          /\ plast' = Event(th, "clear", k)
    /\ UNCHANGED <<running, flush_thread, conn, dbUp, store, nextRec, written, bvars, cvars>>

\* sync_object(obj_id, force)
SyncObject(o, force) ==
    /\ pc[Caller] = "idle"
    /\ nextRec <= MaxRecords
    /\ IF ~HasObject(objs, o)
       THEN /\ plast' = Event(Caller, "not_found", "object")
            /\ UNCHANGED <<buffers, nextRec, pc>>
       ELSE IF force
       THEN \* self._insert_object is defined nowhere: AttributeError
            /\ plast' = Event(Caller, "raised", "object")
            /\ UNCHANGED <<buffers, nextRec, pc>>
       ELSE LET buf == Append(buffers.object, Record(nextRec, o, objs[o].status))
            IN /\ buffers' = [buffers EXCEPT !.object = buf]
               /\ nextRec' = nextRec + 1
               /\ pc' = [pc EXCEPT ![Caller] =
                            IF Len(buf) >= buffer_size THEN "fo" ELSE "idle"]
               /\ plast' = Event(Caller, "append", "object")
    /\ UNCHANGED <<running, flush_thread, conn, dbUp, store, written, bvars, cvars>>

\* sync_observation(obj_id, frame_id, ...)
SyncObservation(o) ==
    /\ pc[Caller] = "idle"
    /\ nextRec <= MaxRecords
    /\ LET buf == Append(buffers.observation, Record(nextRec, o, ""))
       IN /\ buffers' = [buffers EXCEPT !.observation = buf]
          /\ nextRec' = nextRec + 1
          /\ pc' = [pc EXCEPT ![Caller] =
                       IF Len(buf) >= buffer_size THEN "fv" ELSE "idle"]
          /\ plast' = Event(Caller, "append", "observation")
    /\ UNCHANGED <<running, flush_thread, conn, dbUp, store, written, bvars, cvars>>

\* connect()
Connect ==
    /\ pc[Caller] = "idle"
    /\ conn = "none"
    /\ IF dbUp
       THEN conn' = "open" /\ plast' = Event(Caller, "connected", "")
       ELSE conn' = conn /\ plast' = Event(Caller, "connect_failed", "")
    /\ UNCHANGED <<running, flush_thread, pc, dbUp, buffers, store, nextRec, written, bvars, cvars>>

\* start_periodic_flush()
StartPeriodicFlush ==
    /\ pc[Caller] = "idle"
    /\ IF running
       THEN UNCHANGED <<running, flush_thread, pc>>
       ELSE /\ \E t \in Loops :
                 /\ pc[t] = "none"
                 /\ \A u \in Loops : u < t => pc[u] # "none"
                 /\ flush_thread' = t
                 /\ pc' = [pc EXCEPT ![t] = "check"]
            /\ running' = TRUE
    /\ plast' = Event(0, "step", "")
    /\ UNCHANGED <<conn, dbUp, buffers, store, nextRec, written, bvars, cvars>>

\* _flush_loop: while self.running
LoopCheck(t) ==
    /\ pc[t] = "check"
    /\ pc' = [pc EXCEPT ![t] = IF running THEN "sleep" ELSE "done"]
    /\ plast' = Event(0, "step", "")
    /\ UNCHANGED <<running, flush_thread, conn, dbUp, buffers, store, nextRec, written, bvars, cvars>>

\* _flush_loop: time.sleep(self.flush_interval) returns; flush_all() starts
LoopWake(t) ==
    /\ pc[t] = "sleep"
    /\ pc' = [pc EXCEPT ![t] = "fo"]
    /\ plast' = Event(0, "step", "")
    /\ UNCHANGED <<running, flush_thread, conn, dbUp, buffers, store, nextRec, written, bvars, cvars>>

\* stop_periodic_flush() called on the running service: running = False ...
StopFlushCall ==
    /\ pc[Caller] = "idle"
    /\ running' = FALSE
    /\ pc' = [pc EXCEPT ![Caller] = IF flush_thread # 0 THEN "join" ELSE "idle"]
    /\ plast' = Event(0, "step", "")
    /\ UNCHANGED <<flush_thread, conn, dbUp, buffers, store, nextRec, written, bvars, cvars>>

\* ... and flush_thread.join(timeout=5.0) returns: the thread has ended, or
\* five seconds have passed (the loop sleeps ten seconds at a time)
StopFlushJoin ==
    /\ pc[Caller] = "join"
    /\ pc' = [pc EXCEPT ![Caller] = "idle"]
    /\ plast' = Event(0, "step", "")
    /\ UNCHANGED <<running, flush_thread, conn, dbUp, buffers, store, nextRec, written, bvars, cvars>>

\* reset_persistence(): stop_periodic_flush() sets running = False ...
StopPeriodicFlush ==
    /\ pc[Shutdown] = "idle"
    /\ running' = FALSE
    /\ pc' = [pc EXCEPT ![Shutdown] = "join"]
    /\ plast' = Event(0, "step", "")
    /\ UNCHANGED <<flush_thread, conn, dbUp, buffers, store, nextRec, written, bvars, cvars>>

\* ... and flush_thread.join(timeout=5.0) returns: the thread has ended, or
\* five seconds have passed (the loop sleeps ten seconds at a time)
JoinReturns ==
    /\ pc[Shutdown] = "join"
    /\ pc' = [pc EXCEPT ![Shutdown] = "disconnect"]
    /\ plast' = Event(0, "step", "")
    /\ UNCHANGED <<running, flush_thread, conn, dbUp, buffers, store, nextRec, written, bvars, cvars>>

\* disconnect(): if self.conn: self.flush_all() ...
Disconnect ==
    /\ pc[Shutdown] = "disconnect"
    /\ pc' = [pc EXCEPT ![Shutdown] = IF conn # "none" THEN "fo" ELSE "done"]
    /\ plast' = Event(0, "step", "")
    /\ UNCHANGED <<running, flush_thread, conn, dbUp, buffers, store, nextRec, written, bvars, cvars>>

\* ... self.conn.close(); self.conn = None
CloseConn ==
    /\ pc[Shutdown] = "close"
    /\ conn' = "none"
    /\ pc' = [pc EXCEPT ![Shutdown] = "done"]
    /\ plast' = Event(0, "step", "")
    /\ UNCHANGED <<running, flush_thread, dbUp, buffers, store, nextRec, written, bvars, cvars>>

\* the Postgres server goes away / comes back
DbToggle ==
    /\ dbUp' = ~dbUp
    /\ plast' = Event(0, "step", "")
    /\ UNCHANGED <<running, flush_thread, pc, conn, buffers, store, nextRec, written, bvars, cvars>>

\* ------------------------------------------- concurrent process_frame calls
\* Producer threads share the one ObjectTracker and its dict self.tracks; the
\* code takes no lock.  A thread can be switched out between any two steps
\* below (at every Redis call, and between bytecodes of the pure loops).

\* the detector's output for the k-th frame of producer w: one object, at a
\* place no other frame shows, so no two calls concern the same object
WorkerDetections(w, k) ==
    LET x == 100 * w + 20 * k
    IN <<[bbox |-> <<x, 0, x + 10, 10>>, confidence |-> 90, class_name |-> "thing"]>>

IdleWorker ==
    [pc |-> "idle", calls |-> 0, ts |-> 0, frame_id |-> 0, dets |-> <<>>,
     matched |-> <<>>, ids |-> <<>>, stale |-> <<>>, it_used |-> 0, it_pos |-> 0,
     error |-> ""]

\* next() of an iterator over self.tracks.items(): the dict's size is compared
\* with the size at the iterator's creation first (RuntimeError: dictionary
\* changed size during iteration), then the next live entry after the
\* iterator's position is returned.  Entries lie in insertion order, which is
\* increasing id order; at most MaxWorkers * MaxCalls keys are ever inserted,
\* so the entry table is never rebuilt.
DictNext(T, it_used, it_pos) ==
    LET rest == {o \in DOMAIN T : o > it_pos}
    IN IF Cardinality(DOMAIN T) # it_used THEN [kind |-> "RuntimeError", key |-> 0]
       ELSE IF rest = {} THEN [kind |-> "StopIteration", key |-> 0]
       ELSE [kind |-> "item", key |-> CHOOSE o \in rest : \A x \in rest : o <= x]

\* process_frame is entered: timestamp defaults to now, the detector runs
Call(w) ==
    /\ wk[w].pc = "idle"
    /\ wk[w].calls < MaxCalls
    /\ wk' = [wk EXCEPT ![w] =
                [IdleWorker EXCEPT !.pc = "match", !.calls = wk[w].calls + 1,
                                   !.ts = now,
                                   !.frame_id = MaxCalls * (w - 1) + wk[w].calls + 1,
                                   !.dets = WorkerDetections(w, wk[w].calls + 1)]]
    /\ detector' = get_detector(detector, default_backend)
    /\ detector'.created <= MaxDetectors
    /\ UNCHANGED <<bvars, pvars, qlog, thresholds, orbitTrack>>

\* _match_detections: the emptiness test and the creation of the iterator
MatchBegin(w) ==
    /\ wk[w].pc = "match"
    /\ wk' = [wk EXCEPT ![w] =
                IF DOMAIN tracks = {}
                THEN [@ EXCEPT !.pc = "create"]
                ELSE [@ EXCEPT !.pc = "match_iter",
                               !.it_used = Cardinality(DOMAIN tracks), !.it_pos = 0]]
    /\ UNCHANGED <<bvars, pvars, qlog, kvars>>

\* _match_detections: one turn of the loop over self.tracks.items(); when the
\* loop ends, update() runs _update_track for the matched tracks
MatchNext(w) ==
    /\ wk[w].pc = "match_iter"
    /\ \E n \in {DictNext(tracks, wk[w].it_used, wk[w].it_pos)} :
          wk' = [wk EXCEPT ![w] =
                   IF n.kind = "RuntimeError"
                   THEN [@ EXCEPT !.pc = "failed", !.error = "RuntimeError"]
                   ELSE IF n.kind = "StopIteration"
                   THEN IF update_track_raises(wk[w].matched)
                        THEN [@ EXCEPT !.pc = "failed", !.error = "AttributeError"]
                        ELSE [@ EXCEPT !.pc = "create"]
                   ELSE [@ EXCEPT !.it_pos = n.key,
                                  !.matched = MatchLoop(tracks, <<n.key>>, wk[w].dets,
                                                  wk[w].matched,
                                                  {wk[w].matched[o] : o \in DOMAIN wk[w].matched})]]
    /\ UNCHANGED <<bvars, pvars, qlog, kvars>>

\* update(): _create_new_track for the unmatched detections
Create(w) ==
    /\ wk[w].pc = "create"
    /\ \E S \in {CreateLoop([tracks |-> tracks, objs |-> objs, viewsZ |-> viewsZ,
                             triage |-> triage, nextId |-> nextId, ids |-> wk[w].ids],
                            wk[w].frame_id, wk[w].dets, 1,
                            {wk[w].matched[o] : o \in DOMAIN wk[w].matched}, wk[w].ts)} :
          /\ nextId' = S.nextId
          /\ tracks' = S.tracks
          /\ objs' = S.objs
          /\ viewsZ' = S.viewsZ
          /\ wk' = [wk EXCEPT ![w] = [@ EXCEPT !.pc = "stale", !.ids = S.ids]]
    /\ UNCHANGED <<now, metrics, triage, recon, quarantine, failStreak, ret, pvars, qlog, kvars>>

\* _remove_stale_tracks: the creation of the iterator of the first loop
StaleBegin(w) ==
    /\ wk[w].pc = "stale"
    /\ wk' = [wk EXCEPT ![w] =
                [@ EXCEPT !.pc = "stale_iter", !.stale = <<>>,
                          !.it_used = Cardinality(DOMAIN tracks), !.it_pos = 0]]
    /\ UNCHANGED <<bvars, pvars, qlog, kvars>>

\* _remove_stale_tracks: one turn of the loop that collects the stale ids
StaleNext(w) ==
    /\ wk[w].pc = "stale_iter"
    /\ \E n \in {DictNext(tracks, wk[w].it_used, wk[w].it_pos)} :
          wk' = [wk EXCEPT ![w] =
                   IF n.kind = "RuntimeError"
                   THEN [@ EXCEPT !.pc = "failed", !.error = "RuntimeError"]
                   ELSE IF n.kind = "StopIteration"
                   THEN [@ EXCEPT !.pc = "stale_del"]
                   ELSE [@ EXCEPT !.it_pos = n.key,
                                  !.stale = IF wk[w].ts - tracks[n.key].last_seen_ts > max_age
                                            THEN Append(@, n.key) ELSE @]]
    /\ UNCHANGED <<bvars, pvars, qlog, kvars>>

\* _remove_stale_tracks: one turn of the loop "del self.tracks[obj_id]"
\* (KeyError when the key is gone); after it update() returns its ids
StaleDel(w) ==
    /\ wk[w].pc = "stale_del"
    /\ IF wk[w].stale = <<>>
       THEN /\ wk' = [wk EXCEPT ![w] = [@ EXCEPT !.pc = "brain"]]
            /\ UNCHANGED tracks
       ELSE IF Head(wk[w].stale) \notin DOMAIN tracks
       THEN /\ wk' = [wk EXCEPT ![w] = [@ EXCEPT !.pc = "failed", !.error = "KeyError"]]
            /\ UNCHANGED tracks
       ELSE /\ tracks' = [o \in (DOMAIN tracks) \ {Head(wk[w].stale)} |-> tracks[o]]
            /\ wk' = [wk EXCEPT ![w] = [@ EXCEPT !.stale = Tail(@)]]
    /\ UNCHANGED <<now, nextId, objs, viewsZ, metrics, triage, recon, quarantine,
                   failStreak, ret, pvars, qlog, kvars>>

\* process_frame: the loop over the ids update() returned, and the return
BrainReturn(w) ==
    /\ wk[w].pc = "brain"
    /\ \E S \in {BrainLoop([tracks |-> tracks, objs |-> objs, viewsZ |-> viewsZ,
                            triage |-> triage, nextId |-> nextId, ids |-> wk[w].ids],
                           wk[w].ids, 1, wk[w].ts)} :
          /\ Len(S.triage) <= MaxQueue
          /\ objs' = S.objs
          /\ triage' = S.triage
          /\ ret' = Ret("process_frame", 0, TRUE, FALSE, wk[w].ids)
          /\ wk' = [wk EXCEPT ![w] = [@ EXCEPT !.pc = "idle"]]
    /\ UNCHANGED <<now, nextId, tracks, viewsZ, metrics, recon, quarantine,
                   failStreak, pvars, qlog, kvars>>

\* line 196 of _update_track on a track whose frames are already appended
CalculateOrbit ==
    /\ orbitTrack' = [orbitTrack EXCEPT !.orbit_deg = calculate_orbit(orbitTrack)]
    /\ UNCHANGED <<bvars, pvars, wk, qlog, thresholds, detector>>

\* box centres east, north, west and south of (15, 15), and one off the axes
OrbitBoxes == { <<20, 10, 30, 20>>, <<10, 20, 20, 30>>, <<0, 10, 10, 20>>,
                <<10, 0, 20, 10>>, <<0, 0, 10, 10>> }

RECURSIVE SeqsUpTo(_, _)
SeqsUpTo(S, n) ==
    IF n = 0 THEN {<<>>}
    ELSE LET shorter == SeqsUpTo(S, n - 1)
         IN shorter \cup {Append(q, x) : q \in shorter, x \in S}

OrbitFrames == SeqsUpTo({[bbox |-> b] : b \in OrbitBoxes}, MaxOrbitFrames)

CInit0 ==
    /\ wk = [w \in Workers |-> IdleWorker]
    /\ qlog = [q \in Queues |-> [pushed |-> <<>>, popped |-> <<>>]]
    /\ thresholds = DefaultThresholds
    /\ detector = NoDetector

CInit ==
    /\ CInit0
    /\ orbitTrack = [frames |-> <<>>, orbit_deg |-> 0]


PInit ==
    /\ running = FALSE
    /\ flush_thread = 0
    /\ pc = [t \in Threads |-> IF t \in Loops THEN "none" ELSE "idle"]
    /\ conn = "none"
    /\ dbUp = TRUE
    /\ buffers = [object |-> <<>>, observation |-> <<>>]
    /\ store = [object |-> <<>>, observation |-> <<>>]
    /\ nextRec = 1
    /\ written = {}
    /\ plast = Event(0, "init", "")

BInit ==
    /\ now = 0
    /\ nextId = 1
    /\ tracks = <<>>
    /\ objs = <<>>
    /\ viewsZ = <<>>
    /\ metrics = <<>>
    /\ triage = <<>>
    /\ recon = <<>>
    /\ quarantine = <<>>
    /\ failStreak = [o \in AllIds |-> 0]
    /\ ret = Ret("init", 0, FALSE, FALSE, <<>>)

\* a track with any history of boxes, before its coverage is computed
OrbitInit ==
    /\ BInit
    /\ PInit
    /\ CInit0
    /\ \E fr \in OrbitFrames : orbitTrack = [frames |-> fr, orbit_deg |-> 0]

\* the status machine: frames and the operator's status calls
StatusNext ==
    \/ \E f \in SceneFrames, dets \in SceneDetections : ProcessFrame(f, dets, MaxBrainObjs)
    \/ \E o \in BrainIds, s \in StatusArgs, r \in Reasons : TransitionStatus(o, s, r)
    \/ \E o \in BrainIds, r \in Reasons : ForceAdmit(o, r)
    \/ \E o \in BrainIds, r \in Reasons : ForceQuarantine(o, r)

\* frames over time: several tracks, the clock, manual admission
FrameNext ==
    \/ \E f \in FrameIds, dets \in Detections : ProcessFrame(f, dets, MaxObjs)
    \/ \E o \in ObjIds, r \in Reasons : ForceAdmit(o, r)
    \/ Tick

\* admission checks against the values a worker publishes
QualityNext ==
    \/ \E f \in SceneFrames, dets \in SingleDetection : ProcessFrame(f, dets, MaxBrainObjs)
    \/ \E o \in BrainIds : CheckQuality(o)
    \/ \E o \in BrainIds, q \in Qualities : SetQuality(o, q)

\* the persistence service around a scene of two objects
PersistScene ==
    { << [bbox |-> <<0, 0, 10, 10>>, confidence |-> 90, class_name |-> "thing"],
         [bbox |-> <<20, 20, 30, 30>>, confidence |-> 90, class_name |-> "thing"] >> }

PersistNext ==
    \/ \E o \in ObjIds \cup {0}, force \in BOOLEAN : SyncObject(o, force)
    \/ \E o \in {1} : SyncObservation(o)
    \/ Connect
    \/ StartPeriodicFlush
    \/ \E t \in Loops : LoopCheck(t)
    \/ \E t \in Loops : LoopWake(t)
    \/ \E th \in Threads : FlushStep(th)
    \/ \E th \in Threads : ClearStep(th)
    \/ StopPeriodicFlush
    \/ JoinReturns
    \/ Disconnect
    \/ CloseConn
    \/ DbToggle

\* the persistence service starts once the scene's first frame is processed
SceneState == process_frame(EmptyScene, 1, CHOOSE d \in PersistScene : TRUE, 0).S

PersistInit ==
    /\ now = 0
    /\ nextId = SceneState.nextId
    /\ tracks = SceneState.tracks
    /\ objs = SceneState.objs
    /\ viewsZ = SceneState.viewsZ
    /\ metrics = <<>>
    /\ triage = SceneState.triage
    /\ recon = <<>>
    /\ quarantine = <<>>
    /\ failStreak = [o \in AllIds |-> 0]
    /\ ret = Ret("process_frame", 0, TRUE, FALSE, SceneState.ids)
    /\ PInit
    /\ CInit

\* the audit log: one object seen in one place, and the operator's status calls
AuditNext ==
    \/ \E f \in SceneFrames, dets \in SingleDetection : ProcessFrame(f, dets, MaxBrainObjs)
    \/ \E o \in BrainIds, st \in {"ready", "archived"}, r \in Reasons :
          TransitionStatus(o, st, r)
    \/ \E o \in BrainIds, r \in Reasons : ForceAdmit(o, r)
    \/ \E o \in BrainIds, r \in Reasons : ForceQuarantine(o, r)

\* eviction: frames over time, nothing else
EvictNext ==
    \/ \E f \in FrameIds, dets \in Detections : ProcessFrame(f, dets, MaxObjs)
    \/ Tick

\* calls that name an id without hot state, next to the operator's overrides
LookupNext ==
    \/ \E f \in SceneFrames, dets \in SingleDetection : ProcessFrame(f, dets, MaxBrainObjs)
    \/ \E o \in BrainIds, r \in Reasons : ForceAdmit(o, r)
    \/ \E o \in BrainIds, r \in Reasons : ForceQuarantine(o, r)
    \/ \E o \in BrainIds, st \in StatusArgs, r \in Reasons :
          ~HasObject(objs, o) /\ TransitionStatus(o, st, r)
    \/ \E o \in BrainIds : ~HasObject(objs, o) /\ CheckQuality(o)
    \/ \E o \in BrainIds : GetObjectStatus(o)
    \/ \E o \in BrainIds, force \in BOOLEAN : ~HasObject(objs, o) /\ SyncObject(o, force)

\* the builder's threshold configuration next to the admission checks
ConfigNext ==
    \/ \E t \in ThresholdUpdates : UpdateThresholds(t)
    \/ \E f \in SceneFrames, dets \in SingleDetection : ProcessFrame(f, dets, MaxBrainObjs)
    \/ \E o \in BrainIds : CheckQuality(o)
    \/ \E o \in BrainIds, q \in {QualityGood, QualityLowSilhouette} : SetQuality(o, q)

\* the builder's choice of detector backend next to the frames
DetectorNext ==
    \/ \E b \in Backends : UpdateDetector(b)
    \/ \E f \in FrameIds, dets \in Detections : ProcessFrame(f, dets, MaxObjs)

\* coverage computed for a track, next to frames that create tracks
OrbitNext ==
    \/ CalculateOrbit
    \/ \E f \in FrameIds, dets \in DetectionsOf({<<0, 0, 10, 10>>}, 1) :
          ProcessFrame(f, dets, MaxBrainObjs)

\* the buffers and the flushes of the calling thread alone
FlushNext ==
    \/ \E o \in ObjIds : SyncObject(o, FALSE)
    \/ \E o \in {1} : SyncObservation(o)
    \/ Connect
    \/ FlushStep(Caller)
    \/ ClearStep(Caller)
    \/ DbToggle

\* starting and stopping the periodic flush on one service object
LoopNext ==
    \/ StartPeriodicFlush
    \/ StopFlushCall
    \/ StopFlushJoin
    \/ \E t \in Loops : LoopCheck(t)
    \/ \E t \in Loops : LoopWake(t)
    \/ \E t \in Loops : FlushStep(t)
    \/ \E t \in Loops : ClearStep(t)
    \/ \E o \in {1} : SyncObject(o, FALSE)
    \/ Connect

\* the three queues, their producers and several consumers
QueueNext ==
    \/ \E o \in BrainIds : PushTriage(o)
    \/ \E o \in BrainIds : PushRecon(o)
    \/ \E o \in BrainIds, r \in Reasons : PushQuarantine(o, r)
    \/ \E c \in Consumers, t \in PopTimeouts : PopTriage(c, t)
    \/ \E c \in Consumers, t \in PopTimeouts : PopRecon(c, t)
    \/ \E c \in Consumers, t \in PopTimeouts : PopQuarantine(c, t)

\* producers calling process_frame concurrently, each on frames of its own
ConcNext ==
    \/ \E w \in Workers : Call(w)
    \/ \E w \in Workers : MatchBegin(w)
    \/ \E w \in Workers : MatchNext(w)
    \/ \E w \in Workers : Create(w)
    \/ \E w \in Workers : StaleBegin(w)
    \/ \E w \in Workers : StaleNext(w)
    \/ \E w \in Workers : StaleDel(w)
    \/ \E w \in Workers : BrainReturn(w)
    \/ Tick

vars == <<bvars, pvars, cvars>>
Init == BInit /\ PInit /\ CInit
Next == StatusNext
Spec == Init /\ [][Next]_vars
FrameSpec == Init /\ [][FrameNext]_vars
QualitySpec == Init /\ [][QualityNext]_vars
PersistSpec == PersistInit /\ [][PersistNext]_vars
AuditSpec == Init /\ [][AuditNext]_vars
EvictSpec == Init /\ [][EvictNext]_vars
LookupSpec == Init /\ [][LookupNext]_vars
ConcSpec == Init /\ [][ConcNext]_vars
QueueSpec == Init /\ [][QueueNext]_vars
ConfigSpec == Init /\ [][ConfigNext]_vars
DetectorSpec == Init /\ [][DetectorNext]_vars
FlushSpec == PersistInit /\ [][FlushNext]_vars
LoopSpec == PersistInit /\ [][LoopNext]_vars
OrbitSpec == OrbitInit /\ [][OrbitNext]_vars

\* ------------------------------------------------------------------ claims
LastBox(T, o) == T[o].frames[Len(T[o].frames)].bbox

\* detection d reaches the IoU threshold with track o and touches no other track
MatchesOnly(T, d, o) ==
    /\ o \in DOMAIN T
    /\ IouAtLeastThreshold(calculate_iou(LastBox(T, o), d.bbox))
    /\ \A p \in (DOMAIN T) \ {o} : calculate_iou(LastBox(T, p), d.bbox)[1] = 0

Det(b) == [bbox |-> b, confidence |-> 90, class_name |-> "thing"]

\* the edges of the status machine of section 4.4
EnumeratedEdge(from, to, op) ==
    \/ from = "pending" /\ to = "observing"
    \/ from = "observing" /\ to = "ready"
    \/ to = "quarantine"
    \/ from = "quarantine" /\ to = "observing" /\ op = "force_admit"

\* C1 (as claimed): every change of an object's status follows an enumerated
\* edge: pending->observing, observing->ready, any->quarantine, and
\* quarantine->observing only through force_admit.
C1_OnlyEnumeratedEdges ==
    [][\A o \in DOMAIN objs :
          (o \in DOMAIN objs' /\ objs'[o].status # objs[o].status)
              => EnumeratedEdge(objs[o].status, objs'[o].status, ret'.op)]_vars

\* C5 (as claimed): a frame whose single detection reaches the IoU threshold
\* with exactly one track is processed normally: update() returns that
\* track's id, the track gains the observation, no new id is handed out.
C5_MatchUpdatesTrack ==
    [][\A o \in DOMAIN tracks, b \in Boxes, f \in FrameIds :
          (MatchesOnly(tracks, Det(b), o) /\ ProcessFrame(f, <<Det(b)>>, MaxObjs))
              => /\ ~ret'.raised
                 /\ ret'.ids = <<o>>
                 /\ o \in DOMAIN tracks'
                 /\ Len(tracks'[o].frames) = Len(tracks[o].frames) + 1
                 /\ nextId' = nextId]_vars

\* C8 (as claimed): a frame that re-observes a pending object is processed;
\* the object stays pending while its views are below 3 and becomes observing,
\* with exactly one push onto triage, in the frame that brings them to 3.
C8_PendingToObserving ==
    [][\A o \in DOMAIN tracks, f \in SceneFrames, dets \in SceneDetections :
          (/\ dets # <<>>
           /\ MatchesOnly(tracks, dets[1], o)
           /\ o \in DOMAIN objs /\ objs[o].status = "pending"
           /\ ProcessFrame(f, dets, MaxBrainObjs))
              => /\ ~ret'.raised
                 /\ IF objs'[o].views >= pending_min_views
                    THEN objs'[o].status = "observing" /\ triage' = <<o>> \o triage
                    ELSE objs'[o].status = "pending" /\ triage' = triage]_vars

\* C9 (as claimed): a frame at time t that re-observes an observing object
\* pushes it onto triage again when views >= observation_min_views or when
\* t - last_seen_ts (before the frame) >= observation_window_sec.
C9_ObservingRequeued ==
    [][\A o \in DOMAIN tracks, b \in Boxes, f \in FrameIds :
          (/\ MatchesOnly(tracks, Det(b), o)
           /\ o \in DOMAIN objs /\ objs[o].status = "observing"
           /\ \/ objs[o].views + 1 >= observation_min_views
              \/ now - objs[o].last_seen_ts >= observation_window_sec
           /\ ProcessFrame(f, <<Det(b)>>, MaxObjs))
              => /\ ~ret'.raised
                 /\ objs'[o].status = "observing"
                 /\ triage' = <<o>> \o triage]_vars

\* C10 (as claimed): an object whose admission check has failed
\* quarantine_failed_attempts times in a row is in quarantine, with an entry
\* on the quarantine queue and in its audit log.
C10_QuarantinedByPolicy ==
    \A o \in DOMAIN objs :
        failStreak[o] >= quarantine_failed_attempts
            => /\ objs[o].status = "quarantine"
               /\ \E i \in 1..Len(quarantine) : json_loads(quarantine[i]).value.obj_id = o
               /\ objs[o].notes # <<>>

\* force_quarantine(o, r) called for an object that is in quarantine and whose
\* latest audit entry records a move to quarantine for the same reason r
RepeatedForceQuarantine(o, r) ==
    /\ r # ""
    /\ o \in DOMAIN objs
    /\ objs[o].status = "quarantine"
    /\ objs[o].notes # <<>>
    /\ objs[o].notes[Len(objs[o].notes)].to = "quarantine"
    /\ objs[o].notes[Len(objs[o].notes)].reason = r
    /\ ForceQuarantine(o, r)

\* C4 (as claimed): force_quarantine repeated with the same reason on an
\* object already in quarantine appends no further audit entry.
C4_RepeatAppendsNothing ==
    [][\A o \in BrainIds, r \in Reasons :
          RepeatedForceQuarantine(o, r)
              => objs'[o].status = "quarantine" /\ objs'[o].notes = objs[o].notes]_vars

\* no flush loop was ever started and no shutdown is under way
Quiet == (\A t \in Loops : pc[t] = "none") /\ pc[Shutdown] = "idle"

\* C2 (as claimed): with sync_* calls running next to flushes, every record
\* that was appended is still in its buffer or was part of a committed flush.
C2_NoRecordLost ==
    \A q \in 1..(nextRec - 1) :
        q \in written \/ \E k \in Kinds : q \in SeqsOf(buffers[k])

\* C3 (as claimed): once the shutdown has passed its join and performs (or
\* has performed) its final flush, no timer flush is running or starts.
C3_ShutdownExcludesTimerFlush ==
    pc[Shutdown] \in {"fo", "co", "fv", "cv", "close", "done"}
        => \A t \in Loops : pc[t] \notin {"fo", "co", "fv", "cv"}

\* C6: a flush whose batched write or commit raises leaves the store as it
\* was and the buffer with the same records in the same order, and the
\* thread does not go on to clear the buffer.
C6_FailedFlushKeepsBuffer ==
    [][\A th \in Threads :
          (/\ pc[th] \in {"fo", "fv"}
           /\ pc'[th] # pc[th]
           /\ plast' = Event(th, "failed", KindOf(pc[th])))
              => /\ store' = store
                 /\ buffers' = buffers
                 /\ buffers'[KindOf(pc[th])] # <<>>
                 /\ pc'[th] \notin {"co", "cv"}]_vars

\* C6 witness: a flush has just failed and its records are still buffered
C6_Witness ==
    /\ plast.ev = "failed"
    /\ plast.kind \in Kinds
    /\ buffers[plast.kind] # <<>>
    /\ \A i \in 1..Len(buffers[plast.kind]) : buffers[plast.kind][i].seq \notin written

\* C7 (as claimed): with no timer and a healthy store, the sync_object call
\* that brings the object buffer to buffer_size flushes it: all its records
\* are written.
C7_SizeThCallFlushesAll ==
    (/\ Quiet /\ dbUp
     /\ plast.thread = Caller /\ plast.kind = "object"
     /\ plast.ev \in {"committed", "failed", "connect_failed"}
     /\ Len(buffers.object) = buffer_size)
        => plast.ev = "committed" /\ SeqsOf(buffers.object) \subseteq written

\* C11 (as claimed): force_admit on an existing object, in any status and for
\* any reason including the empty string, returns true, leaves the status at
\* observing, pushes the id once onto recon, leaves triage and quarantine as
\* they were, and records the reason in the audit log.
C11_ForceAdmitLogsReason ==
    [][\A o \in BrainIds, r \in Reasons :
          (HasObject(objs, o) /\ ForceAdmit(o, r))
              => /\ ret'.val
                 /\ objs'[o].status = "observing"
                 /\ recon' = <<o>> \o recon
                 /\ triage' = triage /\ quarantine' = quarantine
                 /\ Len(objs'[o].notes) = Len(objs[o].notes) + 1
                 /\ objs'[o].notes[Len(objs'[o].notes)].reason = r]_vars

C14_ViewsCountObservations ==
    (ret.op = "process_frame" /\ ~ret.raised)
        => \A i \in 1..Len(ret.ids) :
              (ret.ids[i] \in DOMAIN objs /\ ret.ids[i] \in DOMAIN tracks)
                  => objs[ret.ids[i]].views = Len(tracks[ret.ids[i]].frames)

\* the track of o has not been seen for more than max_age at time t
Stale(T, o, t) == o \in DOMAIN T /\ t - T[o].last_seen_ts > max_age

\* C16 (as claimed): a track last seen more than max_age before an update()
\* call is not among the ids the call returns, whatever the detections, and
\* is no longer in the track set after the call.
C16_StaleTrackEvicted ==
    [][\A o \in DOMAIN tracks, f \in FrameIds, dets \in Detections :
          (Stale(tracks, o, now) /\ ProcessFrame(f, dets, MaxObjs))
              => /\ ~ret'.raised
                 /\ \A i \in 1..Len(ret'.ids) : ret'.ids[i] # o
                 /\ o \notin DOMAIN tracks']_vars

C13_MeetsIffAllFive ==
    (ret.op = "check_quality_thresholds" /\ ret.obj \in DOMAIN objs)
        => LET o == ret.obj
               has == o \in DOMAIN metrics
               expected ==
                   [orbit_deg |-> objs[o].orbit_deg >= orbit_deg_min,
                    mvs_consistency |->
                        (IF has THEN metrics[o].mvs_consistency
                         ELSE mvs_consistency_default) <= mvs_consistency_max,
                    silhouette_iou |->
                        (IF has THEN metrics[o].silhouette_iou ELSE 0) >= silhouette_iou_min,
                    texture_cov |->
                        (IF has THEN metrics[o].texture_cov ELSE 0) >= texture_cov_min,
                    scale_conf |-> objs[o].scale_conf >= scale_conf_min]
           IN /\ ret.val.checks = expected
              /\ ret.val.meets_thresholds =
                     (\A f \in DOMAIN expected : expected[f])

\* C13 witness: a check has passed with every value exactly on its threshold
C13_Witness ==
    /\ ret.op = "check_quality_thresholds"
    /\ ret.obj \in DOMAIN objs /\ ret.obj \in DOMAIN metrics
    /\ ret.val.meets_thresholds
    /\ objs[ret.obj].orbit_deg = orbit_deg_min
    /\ objs[ret.obj].scale_conf = scale_conf_min
    /\ metrics[ret.obj].mvs_consistency = mvs_consistency_max
    /\ metrics[ret.obj].silhouette_iou = silhouette_iou_min
    /\ metrics[ret.obj].texture_cov = texture_cov_min

\* C18 (as claimed): sync_object(obj_id, force=True) for an object in the
\* ephemeral store completes without error, has written the object's record
\* to the durable store when it returns, and leaves object_buffer unchanged.
C18_ForceSyncWrites ==
    [][\A o \in ObjIds :
          (HasObject(objs, o) /\ SyncObject(o, TRUE))
              => /\ plast'.ev # "raised"
                 /\ buffers' = buffers
                 /\ o \in DOMAIN store'.object]_vars

\* C19 (as claimed): a flush of the running loop never ends the loop, and a
\* tick that finds the store reachable writes the records retained in the
\* buffer, so none of them stays unwritten for ever.
C19_LoopRetriesAndWrites ==
    [][\A t \in Loops :
          (pc[t] \in {"fo", "fv"} /\ pc'[t] # pc[t])
              => /\ pc'[t] # "done"
                 /\ (dbUp /\ buffers[KindOf(pc[t])] # <<>>)
                        => /\ plast'.ev = "committed"
                           /\ SeqsOf(buffers[KindOf(pc[t])]) \subseteq written']_vars

\* one of the five operations of the brain is called with id o
BrainCalledWith(o) ==
    /\ ret'.obj = o
    /\ \/ /\ ret'.op = "transition_status"
          /\ \E st \in StatusArgs, r \in Reasons : TransitionStatus(o, st, r)
       \/ /\ ret'.op = "force_admit"
          /\ \E r \in Reasons : ForceAdmit(o, r)
       \/ /\ ret'.op = "force_quarantine"
          /\ \E r \in Reasons : ForceQuarantine(o, r)
       \/ ret'.op = "check_quality_thresholds" /\ CheckQuality(o)
       \/ ret'.op = "get_object_status" /\ GetObjectStatus(o)

\* the state an operation on an unknown id must leave alone
HotStateAndBuffersKept(o) ==
    /\ ~HasObject(objs', o)
    /\ UNCHANGED <<objs, viewsZ, metrics, triage, recon, quarantine, buffers, store>>

\* C20: an operation called with an id that has no hot state returns its
\* not-found result without raising and changes neither the ephemeral store,
\* nor a queue, nor a persistence buffer; it does not create the object.
C20_UnknownIdNotFound ==
    [][\A o \in BrainIds :
          ~HasObject(objs, o)
              => /\ BrainCalledWith(o)
                     => /\ ~ret'.raised
                        /\ ret'.op \in {"transition_status", "force_admit",
                                        "force_quarantine"} => ret'.val = FALSE
                        /\ ret'.op = "check_quality_thresholds"
                               => ret'.val.meets_thresholds = FALSE
                        /\ ret'.op = "get_object_status" => ret'.val.found = FALSE
                        /\ HotStateAndBuffersKept(o)
                 /\ (ret'.op = ret.op /\ \E force \in BOOLEAN : SyncObject(o, force))
                     => /\ plast'.ev = "not_found"
                        /\ HotStateAndBuffersKept(o)]_vars

\* C20 witness: with an object in the store, a status call on an id the
\* store does not hold has just returned false
C20_Witness ==
    /\ objs # <<>>
    /\ ret.op \in {"transition_status", "force_admit", "force_quarantine"}
    /\ ret.obj \notin DOMAIN objs
    /\ ret.val = FALSE

\* C15 (as claimed): of two process_frame calls that run concurrently on
\* frames showing different objects, neither fails.
C15_ConcurrentFramesSafe ==
    \A w \in Workers : wk[w].pc # "failed"

\* C21: transition_status called with a status value outside the four valid
\* ones returns false and changes neither the object (status, audit log) nor
\* any of the three queues.
C21_InvalidStatusRejected ==
    [][\A o \in BrainIds, st \in StatusArgs \ valid_statuses, r \in Reasons :
          (/\ ret'.op = "transition_status" /\ ret'.obj = o
           /\ TransitionStatus(o, st, r))
              => /\ ret'.val = FALSE
                 /\ UNCHANGED <<objs, triage, recon, quarantine>>]_vars

\* C21 witness: a transition_status call on an object of the store has just
\* returned false, which only an invalid status value produces
C21_Witness ==
    /\ ret.op = "transition_status"
    /\ ret.obj \in DOMAIN objs
    /\ ret.val = FALSE

IsPrefix(a, b) == Len(a) <= Len(b) /\ SubSeq(b, 1, Len(a)) = a

QueueOf(q) == IF q = "triage" THEN triage ELSE IF q = "recon" THEN recon ELSE quarantine

PopOps == [triage |-> "pop_from_triage", recon |-> "pop_from_recon",
           quarantine |-> "pop_from_quarantine"]

\* C22: on each of the three queues the pops return the pushed entries in the
\* order of the pushes, each entry once (whichever consumer pops); a pop
\* returns null only when every pushed entry has been returned; a quarantine
\* pop returns the obj_id and the reason that were pushed.
C22_QueuesFifo ==
    \A q \in Queues :
        /\ IsPrefix(qlog[q].popped, qlog[q].pushed)
        /\ Len(QueueOf(q)) = Len(qlog[q].pushed) - Len(qlog[q].popped)
        /\ ret.op = PopOps[q]
              => IF ret.val.found
                 THEN /\ qlog[q].popped # <<>>
                      /\ ret.val.entry = qlog[q].popped[Len(qlog[q].popped)]
                 ELSE qlog[q].popped = qlog[q].pushed

\* C22 witness: two different entries were pushed on the quarantine queue and
\* two consumers have popped one each
C22_Witness ==
    /\ Len(qlog["quarantine"].popped) = 2
    /\ qlog["quarantine"].pushed[1] # qlog["quarantine"].pushed[2]
    /\ ret.op = "pop_from_quarantine" /\ ret.obj = 2

\* a submitted threshold dict is valid: known names, degrees within [0, 360],
\* ratios (in hundredths) within [0, 100]
ValidThresholds(t) ==
    \A k \in DOMAIN t :
        /\ k \in DOMAIN DefaultThresholds
        /\ t[k] >= 0
        /\ t[k] <= (IF k = "orbit_deg_min" THEN 360 ELSE 100)

\* C23 (as claimed): update_thresholds with an invalid value or an unknown
\* name is rejected and leaves the thresholds in use as they were.
C23_InvalidThresholdsRejected ==
    [][\A t \in ThresholdUpdates :
          (~ValidThresholds(t) /\ ret'.op = "update_thresholds" /\ UpdateThresholds(t))
              => /\ thresholds' = thresholds
                 /\ ret'.val = FALSE]_vars

\* C26 (as claimed): once a detector of a non-default backend is configured,
\* a process_frame call detects with that instance and does not replace it.
C26_ConfiguredDetectorKept ==
    [][(/\ detector.instance # 0
        /\ detector.backend # default_backend
        /\ ret'.op = "process_frame"
        /\ \E f \in FrameIds, dets \in Detections : ProcessFrame(f, dets, MaxObjs))
           => detector' = detector]_vars

\* the square of the score confidence * sqrt(bbox area) of an observation
ScoreSquared(obs) ==
    obs.confidence * obs.confidence
        * (obs.bbox[3] - obs.bbox[1]) * (obs.bbox[4] - obs.bbox[2])

\* C24 (as claimed): best_frames["best"] of every track names a frame observed
\* for the track whose score no other observed frame exceeds, from the
\* track-creating frame on.
C24_BestFrameIsHighest ==
    \A o \in DOMAIN tracks :
        tracks[o].frames # <<>>
            => /\ tracks[o].best_frames # <<>>
               /\ \E i \in 1..Len(tracks[o].frames) :
                     /\ tracks[o].best_frames.best = tracks[o].frames[i].frame_id
                     /\ \A j \in 1..Len(tracks[o].frames) :
                           ScoreSquared(tracks[o].frames[i])
                               >= ScoreSquared(tracks[o].frames[j])

\* C27 (as claimed): whatever the sequence of start_periodic_flush and
\* stop_periodic_flush calls, at most one flush loop thread is alive.
C27_AtMostOneLoop ==
    \A t, u \in Loops :
        (pc[t] \notin {"none", "done"} /\ pc[u] \notin {"none", "done"}) => t = u


\* C25: the orbit_deg of every track and of every stored object lies in
\* [0, 360], whatever boxes the track has received
C25_OrbitInRange ==
    /\ orbitTrack.orbit_deg >= 0 /\ orbitTrack.orbit_deg <= 360
    /\ \A o \in DOMAIN tracks : tracks[o].orbit_deg >= 0 /\ tracks[o].orbit_deg <= 360
    /\ \A o \in DOMAIN objs : objs[o].orbit_deg >= 0 /\ objs[o].orbit_deg <= 360

\* four boxes a quarter turn apart: the largest gap is 90 and the coverage 270
C25_Witness ==
    /\ Len(orbitTrack.frames) = 4
    /\ orbitTrack.orbit_deg = 270
    /\ DOMAIN tracks # {}

\* C28 (as claimed): in every update() the association is one-to-one, every
\* detection left without a track spawns exactly one new track, and as many
\* ids are returned as there are detections.
C28_UpdateOneToOne ==
    [][\A f \in FrameIds, dets \in Detections :
          ProcessFrame(f, dets, MaxObjs)
              => LET matched == match_detections(tracks, dets)
                 IN /\ \A o, p \in DOMAIN matched : matched[o] = matched[p] => o = p
                    /\ Cardinality((DOMAIN objs') \ (DOMAIN objs))
                           = Len(dets) - Cardinality(DOMAIN matched)
                    /\ Len(ret'.ids) = Len(dets)]_vars

CountOf(q, x) == Cardinality({i \in 1..Len(q) : q[i] = x})

C30_TriageNotDeduplicated ==
    [][\A o \in DOMAIN tracks, b \in Boxes, f \in FrameIds :
          (/\ MatchesOnly(tracks, Det(b), o)
           /\ o \in DOMAIN objs /\ objs[o].status = "observing"
           /\ ProcessFrame(f, <<Det(b)>>, MaxObjs))
              => /\ objs'[o].views = objs[o].views + 1
                 /\ objs'[o].views >= observation_min_views
                       => /\ Len(triage') = Len(triage) + 1
                          /\ CountOf(triage', o) = CountOf(triage, o) + 1]_vars

====
